---- MODULE Spec2Model ----
(***************************************************************************)
(* A model of parlai/agents/starspace/starspace.py: the StarspaceAgent's  *)
(* negative sample cache (ys_cache), its vectorizer, its train/rank step   *)
(* (predict) and the candidate file reader load_cands.                     *)
(*                                                                         *)
(* Texts are sequences of words; the dictionary turns a word into its      *)
(* index.  A tensor is a sequence of rows, a row a sequence of token       *)
(* indices.  The embedding model (parlai/agents/starspace/modules.py, not  *)
(* part of the sources) is the bag-of-embeddings StarSpace model of        *)
(* embedding size one: its parameters give every dictionary index one      *)
(* number, a sequence embeds to the sum of its tokens' numbers, and the    *)
(* cosine similarity of two such embeddings is the product of their signs. *)
(*                                                                         *)
(* Batches hold at most one valid observation (the act() path and the      *)
(* example of batch_act's comment): what Starspace.forward does with an    *)
(* input tensor of several rows is outside the sources.                    *)
(***************************************************************************)
EXTENDS Integers, Sequences, FiniteSets, TLC

VARIABLES
    ys_cache_sz,    \* opt['cache_size']
    neg_samples,    \* opt['neg_samples']
    parrot_neg,     \* opt['parrot_neg']
    truncate,       \* self.truncate; 0 stands for None
    sort_ties,      \* how pred.sort orders equal scores: "first" or "last" index first
    ys_cache,       \* self.ys_cache: a sequence of tensors
    theta,          \* the model parameters: dictionary index -> embedding number
    last_utterance, \* self.history['last_utterance']
    op,             \* the last call: "init", "batch_act", "add_to_ys_cache", "load_cands"
    observations,   \* the argument of the last batch_act
    ys,             \* the target of the last call (None or a tensor)
    negs,           \* what get_negs returned in the last batch_act
    rejected,       \* the cache entries get_negs drew and rejected as same(ys, neg)
    reply,          \* what the last batch_act returned
    stepped,        \* whether the last batch_act ran loss.backward() and optimizer.step()
    raised,         \* the exception the last call raised, or "none"
    cand_file,      \* the lines of the file load_cands last read
    loaded          \* what load_cands last returned

vars == <<ys_cache_sz, neg_samples, parrot_neg, truncate, sort_ties, ys_cache, theta,
          last_utterance, op, observations, ys, negs, rejected, reply, stepped, raised,
          cand_file, loaded>>

config == <<ys_cache_sz, neg_samples, parrot_neg, truncate, sort_ties>>

(***************************************************************************)
(* Bounds of the model.                                                    *)
(***************************************************************************)
MaxCacheSz == 2

MaxNegSamples == 2

MaxTextLen == 3

(***************************************************************************)
(* Program constants.                                                      *)
(***************************************************************************)
NULL_IDX == 0

TopCands == 100

\* 1 / 0.00001, the threshold of same()
EpsInv == 100000

(***************************************************************************)
(* Arithmetic and sequence helpers (Python built-ins).                     *)
(***************************************************************************)
Abs(n) == IF n < 0 THEN -n ELSE n

Min(a, b) == IF a < b THEN a ELSE b

Max(a, b) == IF a > b THEN a ELSE b

Sign(n) == IF n > 0 THEN 1 ELSE IF n < 0 THEN -1 ELSE 0

RECURSIVE SumSeq(_)
SumSeq(s) == IF s = <<>> THEN 0 ELSE Head(s) + SumSeq(Tail(s))

Reversed(s) == [i \in 1..Len(s) |-> s[Len(s) + 1 - i]]

SeqsUpTo(S, n) == UNION {[1..m -> S] : m \in 1..n}

\* Python's None, and a value that is not None, for an optional tensor
None == [none |-> TRUE, t |-> <<>>]

Some(t) == [none |-> FALSE, t |-> t]

(***************************************************************************)
(* The dictionary (parlai.core.dict.DictionaryAgent, not in the sources).  *)
(***************************************************************************)
Vocab == <<"a", "b">>

txt2vec(text) ==
    [i \in 1..Len(text) |-> CHOOSE n \in 1..Len(Vocab) : Vocab[n] = text[i]]

\* StarspaceAgent.parse
parse(text) == txt2vec(text)

Texts == SeqsUpTo({Vocab[n] : n \in 1..Len(Vocab)}, MaxTextLen)

(***************************************************************************)
(* The embedding model and the loss.                                       *)
(***************************************************************************)
Thetas == [1..Len(Vocab) -> {-1, 1}]

\* Encoder: the null index embeds to nothing
Embed(th, row) ==
    SumSeq([i \in 1..Len(row) |-> IF row[i] = NULL_IDX THEN 0 ELSE th[row[i]]])

\* nn.CosineSimilarity of two embeddings of size one
CosineSimilarity(xe, ye) == Sign(xe) * Sign(ye)

\* Starspace.forward followed by nn.CosineSimilarity: one score per target.
Scores(th, xs, targets) ==
    [i \in 1..Len(targets) |->
        CosineSimilarity(Embed(th, xs[1]), Embed(th, targets[i][1]))]

\* torch.nn.CosineEmbeddingLoss(margin, size_average=False), in tenths: the row
\* labelled +1 costs 1 - cos, a row labelled -1 costs max(0, cos - margin).
MarginTenths == 1

CosineEmbeddingLoss(pred) ==
    SumSeq([i \in 1..Len(pred) |->
        IF i = 1 THEN 10 * (1 - pred[i]) ELSE Max(0, 10 * pred[i] - MarginTenths)])

(***************************************************************************)
(* Replies.                                                                *)
(***************************************************************************)
EmptyReply ==
    [kind |-> "empty", text |-> <<>>, text_candidates |-> <<>>, mean_rank |-> 0, loss |-> 0]

MetricsReply(metrics) ==
    [kind |-> "metrics", text |-> <<>>, text_candidates |-> <<>>,
     mean_rank |-> metrics.mean_rank, loss |-> metrics.loss]

TextReply(ypred, tc) ==
    [kind |-> "text", text |-> ypred, text_candidates |-> tc, mean_rank |-> 0, loss |-> 0]

(***************************************************************************)
(* The negative sample cache.                                              *)
(***************************************************************************)
\* y.squeeze() of a tensor of one row
squeeze(y) == y[1]

\* same() that never finds two tensors the same
same_never(y1, y2) == FALSE

\* StarspaceAgent.same
same(y1, y2) ==
    IF Len(squeeze(y1)) # Len(squeeze(y2)) THEN FALSE
    ELSE IF Abs(SumSeq([i \in 1..Len(squeeze(y1)) |-> squeeze(y1)[i] - squeeze(y2)[i]]))
              * EpsInv > 1
         THEN FALSE
         ELSE TRUE

\* One attempt of the loop of get_negs, the random index given. acc.negs are the
\* negatives so far, acc.rejected the entries drawn and rejected.
NegDraw(cache, y, acc, index) ==
    IF ~same(y, cache[index])
    THEN [negs |-> Append(acc.negs, cache[index]), rejected |-> acc.rejected]
    ELSE [negs |-> acc.negs, rejected |-> acc.rejected \cup {cache[index]}]

\* The loop of get_negs from attempt i on, begun in any of the states accs: every
\* way the random indices can fall. The loop breaks once it has k negatives.
RECURSIVE NegLoop(_, _, _, _, _)
NegLoop(cache, y, k, i, accs) ==
    IF i >= k * 3 THEN accs
    ELSE NegLoop(cache, y, k, i + 1,
                 {acc \in accs : Len(acc.negs) >= k}
                 \cup {NegDraw(cache, y, acc, index) :
                          acc \in {a \in accs : Len(a.negs) < k},
                          index \in 1..Len(cache)})

\* StarspaceAgent.get_negs: the set of its possible results
get_negs(cache, y, k, parrot, utt) ==
    IF Len(cache) - 1 < 1 THEN {[negs |-> <<>>, rejected |-> {}]}
    ELSE {[negs |-> IF parrot > 0 /\ Len(utt) > 2 THEN Append(d.negs, <<utt>>) ELSE d.negs,
           rejected |-> d.rejected]
          : d \in NegLoop(cache, y, k, 1, {[negs |-> <<>>, rejected |-> {}]})}

\* add_to_ys_cache without the test for None
add_unchecked(cache, sz, y) ==
    IF Len(cache) < sz THEN {[cache |-> Append(cache, y.t), raised |-> "none"]}
    ELSE IF sz - 1 < 0 THEN {[cache |-> cache, raised |-> "ValueError"]}
    ELSE {[cache |-> [cache EXCEPT ![ind] = y.t], raised |-> "none"] : ind \in 1..sz}

\* add_to_ys_cache that appends whatever the size of the cache
add_always_appends(cache, sz, y) ==
    IF y.none \/ Len(y.t) = 0 THEN {[cache |-> cache, raised |-> "none"]}
    ELSE {[cache |-> Append(cache, y.t), raised |-> "none"]}

\* StarspaceAgent.add_to_ys_cache: the possible results, the cache after the call
\* and the exception raised (random.randint(0, -1) raises ValueError).
add_to_ys_cache(cache, sz, y) ==
    IF y.none \/ Len(y.t) = 0 THEN {[cache |-> cache, raised |-> "none"]}
    ELSE IF Len(cache) < sz THEN {[cache |-> Append(cache, y.t), raised |-> "none"]}
    ELSE IF sz - 1 < 0 THEN {[cache |-> cache, raised |-> "ValueError"]}
    ELSE {[cache |-> [cache EXCEPT ![ind] = y.t], raised |-> "none"] : ind \in 1..sz}

(***************************************************************************)
(* The vectorizer.                                                         *)
(***************************************************************************)
\* An observation: text2vec = <<>> when the key is missing or empty, labels = <<>>
\* when the observation has no 'labels', label_candidates = <<>> when it has none.
Observation(x, ls, cs) == [text2vec |-> x, labels |-> ls, label_candidates |-> cs]

valid(obs) == Len(obs.text2vec) > 0

\* collections.deque(maxlen).appendleft: a full deque drops its right end
appendleft(dq, e, maxlen) ==
    IF maxlen # 0 /\ Len(dq) >= maxlen
    THEN SubSeq(<<e>> \o dq, 1, maxlen)
    ELSE <<e>> \o dq

RECURSIVE extendleft(_, _, _)
extendleft(dq, iterable, maxlen) ==
    IF iterable = <<>> THEN dq
    ELSE extendleft(appendleft(dq, Head(iterable), maxlen), Tail(iterable), maxlen)

\* dq = deque(maxlen); dq.extend(self.parse(y)): a full deque drops its left end
parsed_label_extend(y, maxlen) ==
    IF maxlen # 0 /\ Len(parse(y)) > maxlen
    THEN SubSeq(parse(y), Len(parse(y)) - maxlen + 1, Len(parse(y)))
    ELSE parse(y)

\* dq = deque(maxlen=self.truncate); dq.extendleft(reversed(self.parse(y)))
parsed_label(y, maxlen) == extendleft(<<>>, Reversed(parse(y)), maxlen)

\* row + [NULL_IDX] * (n - len(row))
pad(row, n) == row \o [i \in 1..(n - Len(row)) |-> NULL_IDX]

MaxOf(S) == CHOOSE m \in S : \A n \in S : n <= m

\* sorted(range(len(x_lens)), key=lambda k: -x_lens[k]): a stable sort
ind_sorted(x_lens) ==
    LET n == Len(x_lens)
        before(j, i) == x_lens[j] > x_lens[i] \/ (x_lens[j] = x_lens[i] /\ j < i)
    IN  [p \in 1..n |->
            CHOOSE i \in 1..n : Cardinality({j \in 1..n : before(j, i)}) = p - 1]

\* the candidates of an observation, parsed: one tensor of one row each
parsed_cands(o) == [c \in 1..Len(o.label_candidates) |-> <<parse(o.label_candidates[c])>>]

\* StarspaceAgent.vectorize: the set of its possible results (random.choice picks
\* the label).  xs and ys are optional tensors; cands[i] = <<>> stands for None.
vectorize(obs, maxlen) ==
    LET valid_inds == SelectSeq([i \in 1..Len(obs) |-> i], LAMBDA i : valid(obs[i]))
    IN  IF valid_inds = <<>>
        THEN {[xs |-> None, ys |-> None, none |-> TRUE, cands |-> <<>>, cands_txt |-> <<>>]}
        ELSE
        LET exs0 == [k \in 1..Len(valid_inds) |-> obs[valid_inds[k]]]
            order == ind_sorted([k \in 1..Len(exs0) |-> Len(exs0[k].text2vec)])
            exs == [k \in 1..Len(order) |-> exs0[order[k]]]
            parsed_x == [k \in 1..Len(exs) |-> exs[k].text2vec]
            max_x_len == MaxOf({Len(parsed_x[k]) : k \in 1..Len(exs)})
            xs == [k \in 1..Len(exs) |-> pad(parsed_x[k], max_x_len)]
            labels_avail == \E k \in 1..Len(exs) : exs[k].labels # <<>>
            choices == [k \in 1..Len(exs) |->
                          IF exs[k].labels = <<>> THEN {<<>>}
                          ELSE {exs[k].labels[n] : n \in 1..Len(exs[k].labels)}]
            all_cands == [i \in 1..Len(obs) |-> parsed_cands(obs[i])]
            all_txt == [i \in 1..Len(obs) |-> obs[i].label_candidates]
        IN  IF labels_avail
            THEN {LET parsed_y == [k \in 1..Len(exs) |-> parsed_label(labels[k], maxlen)]
                      max_y_len == MaxOf({Len(parsed_y[k]) : k \in 1..Len(exs)})
                  IN  [xs |-> Some(xs),
                       ys |-> Some([k \in 1..Len(exs) |-> pad(parsed_y[k], max_y_len)]),
                       none |-> FALSE, cands |-> <<>>, cands_txt |-> <<>>]
                  : labels \in {f \in [1..Len(exs) -> UNION {choices[k] : k \in 1..Len(exs)}] :
                                    \A k \in 1..Len(exs) : f[k] \in choices[k]}}
            ELSE {[xs |-> Some(xs), ys |-> None, none |-> FALSE,
                   cands |-> all_cands, cands_txt |-> all_txt]}

(***************************************************************************)
(* The train / rank step.                                                  *)
(***************************************************************************)
\* self.fixedCands: opt has no key 'fixed-candidates-file' (the option is stored
\* as fixed_candidates_file), so __init__ leaves it False.
fixedCands == FALSE

\* StarspaceAgent.compute_metrics
compute_metrics(loss, scores) ==
    [mean_rank |-> Cardinality({i \in 2..Len(scores) : scores[i] >= scores[1]}),
     loss |-> loss]

MinOf(S) == CHOOSE m \in S : \A n \in S : m <= n

\* the indices whose score is level, then those of the lower levels
RECURSIVE ByLevel(_, _, _, _)
ByLevel(pred, ties, level, lowest) ==
    IF level < lowest THEN <<>>
    ELSE LET at == SelectSeq([i \in 1..Len(pred) |-> i], LAMBDA i : pred[i] = level)
         IN  (IF ties = "first" THEN at ELSE Reversed(at))
             \o ByLevel(pred, ties, level - 1, lowest)

\* pred.sort() without descending=True
sort_ascending(pred, ties) ==
    LET values == {pred[i] : i \in 1..Len(pred)}
    IN  Reversed(ByLevel(pred, ties, MaxOf(values), MinOf(values)))

\* val, ind = pred.sort(descending=True): ind, the indices by descending score.
\* torch does not promise the order of equal scores: ties says which it is.
sort_descending(pred, ties) ==
    LET values == {pred[i] : i \in 1..Len(pred)}
    IN  ByLevel(pred, ties, MaxOf(values), MinOf(values))

\* the ranking branch of predict (lines 325-337)
rank(th, ties, xs, cands0, cands_txt0) ==
    LET pred == Scores(th, xs, cands0)
        ind == sort_descending(pred, ties)
        ypred == cands_txt0[ind[1]]
        tc == [i \in 1..Min(TopCands, Len(ind)) |-> cands_txt0[ind[i]]]
    IN  TextReply(ypred, tc)

\* the training branch without the test len(negs) > 0
train_unguarded(th, xs, y, d) ==
    LET pred == Scores(th, xs, <<y>> \o d.negs)
        metrics == compute_metrics(CosineEmbeddingLoss(pred), pred)
    IN  {[reply |-> <<MetricsReply(metrics)>>, negs |-> d.negs,
          rejected |-> d.rejected, stepped |-> TRUE, theta |-> th2, raised |-> "none"]
         : th2 \in Thetas}

\* the training branch of predict (lines 296-316), given what get_negs returned:
\* the possible results.  optimizer.step() may leave any parameters.
train(th, xs, y, d) ==
    IF Len(d.negs) > 0
    THEN LET pred == Scores(th, xs, <<y>> \o d.negs)
             metrics == compute_metrics(CosineEmbeddingLoss(pred), pred)
         IN  {[reply |-> <<MetricsReply(metrics)>>, negs |-> d.negs,
               rejected |-> d.rejected, stepped |-> TRUE, theta |-> th2, raised |-> "none"]
              : th2 \in Thetas}
    ELSE {[reply |-> <<EmptyReply>>, negs |-> d.negs, rejected |-> d.rejected,
           stepped |-> FALSE, theta |-> th, raised |-> "none"]}

\* StarspaceAgent.predict: the set of its possible results
predict(th, cache, k, parrot, utt, ties, v) ==
    LET quiet(r, e) == [reply |-> r, negs |-> <<>>, rejected |-> {}, stepped |-> FALSE,
                        theta |-> th, raised |-> e]
    IN  IF ~v.ys.none
        THEN UNION {train(th, v.xs.t, v.ys.t, d) : d \in get_negs(cache, v.ys.t, k, parrot, utt)}
        ELSE IF v.none \/ v.cands[1] = <<>>
             THEN IF fixedCands
                  THEN {quiet(<<>>, "TypeError")}
                  ELSE {quiet(<<EmptyReply>>, "none")}
             ELSE {quiet(<<rank(th, ties, v.xs.t, v.cands[1], v.cands_txt[1])>>, "none")}

(***************************************************************************)
(* The operations.                                                         *)
(***************************************************************************)
\* batch_act that writes its target to the cache before it samples
BatchActWriteFirst(obs) ==
    \E v \in vectorize(obs, truncate) :
    \E a \in add_to_ys_cache(ys_cache, ys_cache_sz, v.ys) :
    \E p \in predict(theta, a.cache, neg_samples, parrot_neg, last_utterance, sort_ties, v) :
        /\ op' = "batch_act"
        /\ observations' = obs
        /\ ys' = v.ys
        /\ negs' = p.negs
        /\ rejected' = p.rejected
        /\ stepped' = p.stepped
        /\ theta' = p.theta
        /\ ys_cache' = a.cache
        /\ raised' = IF a.raised = "none" THEN p.raised ELSE a.raised
        /\ reply' = IF p.raised = "none" /\ a.raised = "none" THEN p.reply ELSE <<>>
        /\ UNCHANGED <<config, last_utterance, cand_file, loaded>>

\* StarspaceAgent.batch_act
BatchAct(obs) ==
    \E v \in vectorize(obs, truncate) :
    \E p \in predict(theta, ys_cache, neg_samples, parrot_neg, last_utterance, sort_ties, v) :
    \E a \in add_to_ys_cache(ys_cache, ys_cache_sz, v.ys) :
        /\ op' = "batch_act"
        /\ observations' = obs
        /\ ys' = v.ys
        /\ negs' = p.negs
        /\ rejected' = p.rejected
        /\ stepped' = p.stepped
        /\ theta' = p.theta
        /\ ys_cache' = IF p.raised = "none" THEN a.cache ELSE ys_cache
        /\ raised' = IF p.raised = "none" THEN a.raised ELSE p.raised
        /\ reply' = IF p.raised = "none" /\ a.raised = "none" THEN p.reply ELSE <<>>
        /\ UNCHANGED <<config, last_utterance, cand_file, loaded>>

\* StarspaceAgent.add_to_ys_cache, called on its own
AddToYsCache(y) ==
    \E a \in add_to_ys_cache(ys_cache, ys_cache_sz, y) :
        /\ op' = "add_to_ys_cache"
        /\ ys' = y
        /\ ys_cache' = a.cache
        /\ raised' = a.raised
        /\ observations' = <<>>
        /\ negs' = <<>>
        /\ rejected' = {}
        /\ reply' = <<>>
        /\ stepped' = FALSE
        /\ UNCHANGED <<config, theta, last_utterance, cand_file, loaded>>

(***************************************************************************)
(* The agent after __init__, and the calls made on it.                     *)
(***************************************************************************)
\* the contexts observe() leaves in text2vec
Contexts == {<<1>>, <<2, 1>>}

\* history['last_utterance']: get_negs parrots it when it is longer than 2
Utterances == {<<1>>, <<2, 1, 1>>}

\* the labels of the training calls: of one and of two words, two of them with the
\* same words in another order
Labels == {<<"a">>, <<"b">>, <<"a", "b">>, <<"b", "a">>}

\* the targets add_to_ys_cache is called with on its own: tensors of one row
Targets == {<<parse(t)>> : t \in Labels}

InitAgent ==
    /\ ys_cache = <<>>
    /\ op = "init"
    /\ observations = <<>>
    /\ ys = None
    /\ negs = <<>>
    /\ rejected = {}
    /\ reply = <<>>
    /\ stepped = FALSE
    /\ raised = "none"
    /\ cand_file = <<>>
    /\ loaded = <<>>

\* one observation with one label, or with candidates, or with neither
TrainObs == {Observation(<<2, 1>>, <<l>>, <<>>) : l \in Labels}

RankObs == {Observation(x, <<>>, cs) : x \in Contexts, cs \in {<<>>, <<<<"a">>, <<"b">>>>}}

\* The cache of every capacity, one negative a sample.
Init ==
    /\ InitAgent
    /\ theta \in Thetas
    /\ ys_cache_sz \in 0..MaxCacheSz
    /\ neg_samples = 1
    /\ parrot_neg = 0
    /\ last_utterance = <<1>>
    /\ truncate = 0
    /\ sort_ties = "first"

Next ==
    \/ \E o \in TrainObs \cup RankObs : BatchAct(<<o>>)
    \/ \E y \in {None, Some(<<>>)} \cup {Some(t) : t \in Targets} : AddToYsCache(y)

Spec == Init /\ [][Next]_vars

(***************************************************************************)
(* Sampling: training calls on a cache of two entries, with every number   *)
(* of negatives asked for, with and without the parrot negative.           *)
(***************************************************************************)
InitNegs ==
    /\ InitAgent
    /\ theta \in Thetas
    /\ ys_cache_sz = 2
    /\ neg_samples \in 1..MaxNegSamples
    /\ parrot_neg \in {0, 1}
    /\ last_utterance \in IF parrot_neg > 0 THEN Utterances ELSE {<<1>>}
    /\ truncate = 0
    /\ sort_ties = "first"

NextNegs == \E o \in TrainObs : BatchAct(<<o>>)

SpecNegs == InitNegs /\ [][NextNegs]_vars

(***************************************************************************)
(* The vectorizer's labels: training calls of one observation whose labels *)
(* are longer than the length cap.                                         *)
(***************************************************************************)
MaxTruncate == 2

\* one label, or two for random.choice to pick from
VecObs ==
    {Observation(x, <<l>>, <<>>) : x \in Contexts, l \in Texts}
    \cup {Observation(<<1>>, <<l, <<"b", "a">>>>, <<>>) : l \in Texts}

InitVec ==
    /\ InitAgent
    /\ theta = [n \in 1..Len(Vocab) |-> 1]
    /\ ys_cache_sz = 1
    /\ neg_samples = 1
    /\ parrot_neg = 0
    /\ last_utterance = <<1>>
    /\ truncate \in 0..MaxTruncate
    /\ sort_ties = "first"

NextVec == \E o \in VecObs : BatchAct(<<o>>)

SpecVec == InitVec /\ [][NextVec]_vars

(***************************************************************************)
(* Ranking: inference calls on one observation, its candidate list short   *)
(* or longer than the cap of text_candidates, and training calls in        *)
(* between.                                                                *)
(***************************************************************************)
MaxCands == 2

CandTexts == <<<<"a">>, <<"b">>>>

\* a candidate list of one more than the cap
LongCands == [i \in 1..(TopCands + 1) |-> CandTexts[(i % Len(CandTexts)) + 1]]

CandLists == SeqsUpTo({CandTexts[n] : n \in 1..Len(CandTexts)}, MaxCands)

\* observations to rank, an invalid observation and observations to train on
RankBatchObs ==
    {Observation(x, <<>>, cs) : x \in Contexts, cs \in CandLists \cup {<<>>}}
    \cup {Observation(<<1>>, <<>>, LongCands)}
    \cup {Observation(<<>>, <<>>, <<<<"b">>, <<"a">>>>)}
    \cup {Observation(<<2, 1>>, <<l>>, <<>>) : l \in {<<"a">>, <<"b">>}}

InitRank ==
    /\ InitAgent
    /\ theta \in Thetas
    /\ ys_cache_sz = 2
    /\ neg_samples = 1
    /\ parrot_neg = 0
    /\ last_utterance = <<1>>
    /\ truncate = 0
    /\ sort_ties \in {"first", "last"}

NextRank == \E o \in RankBatchObs : BatchAct(<<o>>)

SpecRank == InitRank /\ [][NextRank]_vars

(***************************************************************************)
(* Batches of several observations, at most one of them valid.             *)
(***************************************************************************)
MaxBatch == 2

\* observations to rank, invalid observations and observations to train on
BatchObs ==
    RankObs
    \cup {Observation(<<>>, <<>>, cs) : cs \in {<<>>, <<<<"b">>, <<"a">>>>}}
    \cup {Observation(<<2, 1>>, <<l>>, <<>>) : l \in {<<"a">>, <<"b">>}}

Batches ==
    {b \in SeqsUpTo(BatchObs, MaxBatch) :
        Cardinality({i \in 1..Len(b) : valid(b[i])}) <= 1}

InitBatch ==
    /\ InitAgent
    /\ theta = [n \in 1..Len(Vocab) |-> 1]
    /\ ys_cache_sz = 2
    /\ neg_samples = 1
    /\ parrot_neg = 0
    /\ last_utterance = <<1>>
    /\ truncate = 0
    /\ sort_ties = "first"

NextBatch == \E b \in Batches : BatchAct(b)

SpecBatch == InitBatch /\ [][NextBatch]_vars

(***************************************************************************)
(* load_cands.  A line is a sequence of characters, a file a sequence of   *)
(* lines (without their line ends).                                        *)
(***************************************************************************)
TAB == "\t"

SPACE == " "

NEWLINE == "\n"

BACKSLASH == "\\"

Whitespace == {SPACE, TAB, NEWLINE}

\* str.strip()
RECURSIVE lstrip(_)
lstrip(line) ==
    IF line # <<>> /\ Head(line) \in Whitespace THEN lstrip(Tail(line)) ELSE line

strip(line) == Reversed(lstrip(Reversed(lstrip(line))))

\* str.replace('\\n', '\n'): a backslash and an n become a newline
RECURSIVE unescape(_)
unescape(line) ==
    IF Len(line) >= 2 /\ line[1] = BACKSLASH /\ line[2] = "n"
    THEN <<NEWLINE>> \o unescape(SubSeq(line, 3, Len(line)))
    ELSE IF line = <<>> THEN <<>>
    ELSE <<Head(line)>> \o unescape(Tail(line))

\* str.find(ch), counting from 0; -1 when ch is not in the line
find(line, ch) ==
    IF \E i \in 1..Len(line) : line[i] = ch
    THEN (CHOOSE i \in 1..Len(line) : line[i] = ch /\ \A j \in 1..(i - 1) : line[j] # ch) - 1
    ELSE -1

\* str.split(ch)
RECURSIVE split(_, _)
split(line, ch) ==
    IF find(line, ch) = -1 THEN <<line>>
    ELSE <<SubSeq(line, 1, find(line, ch))>>
         \o split(SubSeq(line, find(line, ch) + 2, Len(line)), ch)

\* the body of load_cands' loop for one line; st holds cands, lines_have_ids,
\* cands_are_replies and cnt
load_line(st, raw) ==
    LET line == unescape(strip(raw))
    IN  IF Len(line) = 0 THEN st
        ELSE
        LET cnt == st.cnt + 1
            ids == st.lines_have_ids
                   \/ (cnt = 1 /\ SubSeq(line, 1, Min(2, Len(line))) = <<"1", SPACE>>)
            first_tab == find(line, TAB) # -1 /\ ~st.cands_are_replies
            replies == st.cands_are_replies \/ first_tab
            cands == IF first_tab THEN <<>> ELSE st.cands
            rest == SubSeq(line, find(line, SPACE) + 2, Len(line))
            sp == split(rest, TAB)
        IN  [cnt |-> cnt, lines_have_ids |-> ids, cands_are_replies |-> replies,
             cands |-> IF ids
                       THEN IF replies
                            THEN IF Len(sp) > 1 /\ sp[2] # <<>>
                                 THEN Append(cands, sp[2])
                                 ELSE cands
                            ELSE Append(cands, rest)
                       ELSE Append(cands, line)]

RECURSIVE load_lines(_, _)
load_lines(st, lines) ==
    IF lines = <<>> THEN st ELSE load_lines(load_line(st, Head(lines)), Tail(lines))

\* load_cands, given the lines of the file at path
load_cands(lines) ==
    load_lines([cnt |-> 0, lines_have_ids |-> FALSE, cands_are_replies |-> FALSE,
                cands |-> <<>>], lines).cands

LoadCands(lines) ==
    /\ op' = "load_cands"
    /\ cand_file' = lines
    /\ loaded' = load_cands(lines)
    /\ UNCHANGED <<config, ys_cache, theta, last_utterance, observations, ys, negs,
                   rejected, reply, stepped, raised>>

\* The files read: at most MaxLines lines, each a plain candidate, a text and its
\* reply, or an empty line; or such lines, the empty one left out, numbered
\* "1 ", "2 ", ...
MaxLines == 2

Digits == <<"1", "2", "3", "4", "5", "6", "7", "8", "9">>

LineBodies ==
    { <<"h">>,
      <<"h", TAB, "t">>,
      <<"y", TAB, "b", SPACE, "b">>,
      <<"h", TAB, "t", TAB, "y">>,
      <<"y", TAB>>,
      <<"t", SPACE, "y">>,
      <<"h", BACKSLASH, "n", "y", TAB, "t">>,
      <<>> }

numbered(bodies) == [i \in 1..Len(bodies) |-> <<Digits[i], SPACE>> \o bodies[i]]

CandFiles ==
    SeqsUpTo(LineBodies, MaxLines)
    \cup {numbered(b) : b \in SeqsUpTo(LineBodies \ {<<>>}, MaxLines)}

InitCands ==
    /\ InitAgent
    /\ theta = [n \in 1..Len(Vocab) |-> 1]
    /\ ys_cache_sz = 1
    /\ neg_samples = 1
    /\ parrot_neg = 0
    /\ last_utterance = <<1>>
    /\ truncate = 0
    /\ sort_ties = "first"

NextCands == \E lines \in CandFiles : LoadCands(lines)

SpecCands == InitCands /\ [][NextCands]_vars

(***************************************************************************)
(* The claims about the negative sample cache and the training step,       *)
(* checked under Spec and SpecNegs.                                        *)
(***************************************************************************)
\* the step is a call of add_to_ys_cache, on its own or at the end of batch_act
AddCalled == op' = "add_to_ys_cache" \/ op' = "batch_act"

\* the step is a training call: a batch_act whose batch has a target
TrainingCall == op' = "batch_act" /\ ~ys'.none

\* numerically identical, as the specification defines it: the same length and a
\* summed absolute elementwise difference below epsilon
numerically_equal(y1, y2) ==
    /\ Len(y1[1]) = Len(y2[1])
    /\ SumSeq([i \in 1..Len(y1[1]) |-> Abs(y1[1][i] - y2[1][i])]) * EpsInv < 1

\* the negatives get_negs drew from the cache: all but the parrot negative
drawn(ns) ==
    IF parrot_neg > 0 /\ Len(last_utterance) > 2 /\ Len(ns) > 0
    THEN SubSeq(ns, 1, Len(ns) - 1)
    ELSE ns

\* C1 as stated: after every call of add_to_ys_cache, whatever the target, the
\* cache holds min(C, previous size + 1) entries.
C1_SizeAfterAnyAdd ==
    [][AddCalled => Len(ys_cache') = Min(ys_cache_sz, Len(ys_cache) + 1)]_vars

\* C1 amended: a call of add_to_ys_cache with a target that is neither None nor
\* empty leaves min(C, previous size + 1) entries; a call with None or an empty
\* target leaves the cache as it was.
C1_SizeAfterAdd ==
    [][AddCalled =>
          IF ys'.none \/ Len(ys'.t) = 0
          THEN ys_cache' = ys_cache
          ELSE Len(ys_cache') = Min(ys_cache_sz, Len(ys_cache) + 1)]_vars

\* a full cache of two or more entries whose first slot the last add overwrote
C1_Witness ==
    /\ op = "add_to_ys_cache"
    /\ ~ys.none /\ Len(ys.t) > 0
    /\ ys_cache_sz > 1 /\ Len(ys_cache) = ys_cache_sz
    /\ ys_cache[1] = ys.t
    /\ ys_cache[ys_cache_sz] # ys.t

\* C2 as stated: a sample made when the cache holds k+1 entries or more, k or
\* more of them no duplicates of the target, returns exactly k negatives, none
\* numerically equal to the target.
C2_ExactlyK ==
    [][(/\ TrainingCall
        /\ Len(ys_cache) >= neg_samples + 1
        /\ Cardinality({i \in 1..Len(ys_cache) :
                          ~numerically_equal(ys_cache[i], ys'.t)}) >= neg_samples)
       => /\ Len(negs') = neg_samples
          /\ \A i \in 1..Len(negs') : ~numerically_equal(negs'[i], ys'.t)]_vars

\* C2 amended: a sample draws at most k negatives from the cache, each an entry
\* of the cache that is not numerically equal to the target; it draws exactly k
\* when the cache holds two entries or more and none that same() takes for the
\* target.
C2_AtMostK ==
    [][TrainingCall =>
          /\ Len(drawn(negs')) <= neg_samples
          /\ \A i \in 1..Len(drawn(negs')) :
                /\ \E j \in 1..Len(ys_cache) : ys_cache[j] = drawn(negs')[i]
                /\ ~numerically_equal(drawn(negs')[i], ys'.t)
          /\ (/\ Len(ys_cache) >= 2
              /\ \A j \in 1..Len(ys_cache) : ~same(ys'.t, ys_cache[j]))
             => Len(drawn(negs')) = neg_samples]_vars

\* one negative was asked for and returned, after a draw that hit a duplicate
C2_Witness ==
    /\ op = "batch_act" /\ ~ys.none
    /\ parrot_neg = 0
    /\ neg_samples = 1
    /\ Len(negs) = 1
    /\ ys.t \in rejected

\* C9 as stated: get_negs rejects a drawn entry exactly when it is numerically
\* equal to the target, and accepts every entry that differs from it somewhere.
C9_RejectsOnlyEqual ==
    (op = "batch_act" /\ ~ys.none) =>
        /\ \A r \in rejected : numerically_equal(r, ys.t)
        /\ \A i \in 1..Len(drawn(negs)) : ~numerically_equal(drawn(negs)[i], ys.t)

\* no reply of the last call carries metrics
NoMetrics(r) == \A i \in 1..Len(r) : r[i].kind # "metrics"

\* C3 as stated: a training call made while the cache holds at most one entry
\* raises nothing, takes no optimizer step, replies without metrics and puts its
\* target in the cache; from an empty cache the cache then holds one entry.
C3_DegenerateTraining ==
    [][(TrainingCall /\ Len(ys_cache) <= 1)
       => /\ raised' = "none"
          /\ ~stepped' /\ theta' = theta
          /\ reply' = <<EmptyReply>>
          /\ \E j \in 1..Len(ys_cache') : ys_cache'[j] = ys'.t
          /\ (Len(ys_cache) = 0 => Len(ys_cache') = 1)]_vars

\* C10 as stated: a training call whose sample returns fewer than k negatives
\* computes no loss, takes no optimizer step and replies without metrics.
C10_FewerThanKNoOp ==
    [][(TrainingCall /\ Len(negs') < neg_samples)
       => (~stepped' /\ theta' = theta /\ NoMetrics(reply'))]_vars

\* C10 amended: a training call whose sample returns no negative at all takes no
\* optimizer step and replies without metrics; with one negative or more, even
\* fewer than k, it takes the step and replies with metrics.
C10_ZeroNegsNoOp ==
    [][TrainingCall =>
          IF Len(negs') = 0
          THEN ~stepped' /\ theta' = theta /\ NoMetrics(reply')
          ELSE stepped' /\ (raised' = "none" => reply'[1].kind = "metrics")]_vars

\* every draw of a sample from a cache of two or more hit a duplicate
C10_Witness ==
    /\ op = "batch_act" /\ ~ys.none
    /\ negs = <<>>
    /\ rejected # {}
    /\ ~stepped
    /\ reply = <<EmptyReply>>

\* the entries of a cache
entries(cache) == {cache[j] : j \in 1..Len(cache)}

\* C11: in every training call the sample is read from the cache as it was
\* before the call wrote its target: it is a sample that get_negs can return from
\* that cache, every negative drawn is an entry earlier calls wrote and none is
\* the target, and the target is in the cache only once the call has returned.
C11_SampleBeforeWrite ==
    [][TrainingCall =>
          /\ \E d \in get_negs(ys_cache, ys'.t, neg_samples, parrot_neg, last_utterance) :
                d.negs = negs' /\ d.rejected = rejected'
          /\ \A i \in 1..Len(drawn(negs')) :
                /\ drawn(negs')[i] \in entries(ys_cache)
                /\ drawn(negs')[i] # ys'.t
          /\ raised' = "none" => ys'.t \in entries(ys_cache')]_vars

\* the last call drew a negative from a full cache and then overwrote that very
\* entry with its target
C11_Witness ==
    /\ op = "batch_act" /\ ~ys.none
    /\ raised = "none"
    /\ Len(ys_cache) = ys_cache_sz
    /\ ys.t \in entries(ys_cache)
    /\ \E i \in 1..Len(drawn(negs)) : drawn(negs)[i] \notin entries(ys_cache)

(***************************************************************************)
(* The claims about ranking, checked under SpecRank and SpecBatch.         *)
(***************************************************************************)
\* the last call was an inference call: a batch_act whose batch had no target
Inference == op = "batch_act" /\ ys.none

\* the context of the valid observation of a batch that has one
context(obs) == obs[CHOOSE i \in 1..Len(obs) : valid(obs[i])].text2vec

\* the last call ranked a candidate set: the one of the first observation
Ranked ==
    /\ Inference
    /\ \E i \in 1..Len(observations) : valid(observations[i])
    /\ observations[1].label_candidates # <<>>

\* the similarity of a candidate text to the input of the last call
similarity(c) ==
    CosineSimilarity(Embed(theta, context(observations)), Embed(theta, parse(c)))

\* how often text c occurs in the list cs
count(cs, c) == Cardinality({i \in 1..Len(cs) : cs[i] = c})

\* C4: an inference call with n >= 1 candidates replies with min(100, n)
\* text_candidates, no candidate position listed twice, in non-increasing order
\* of similarity to the input, and with the first of them, a candidate of
\* maximal similarity, as its text.
C4_RankedReply ==
    Ranked =>
        LET cs == observations[1].label_candidates
            tc == reply[1].text_candidates
        IN  /\ reply[1].kind = "text"
            /\ Len(tc) = Min(TopCands, Len(cs))
            /\ \A i \in 1..Len(tc) : count(tc, tc[i]) <= count(cs, tc[i])
            /\ \A i \in 1..(Len(tc) - 1) : similarity(tc[i]) >= similarity(tc[i + 1])
            /\ reply[1].text = tc[1]
            /\ \A i \in 1..Len(cs) : similarity(tc[1]) >= similarity(cs[i])

\* more candidates than the cap, of different similarity, were ranked
C4_Witness ==
    /\ Ranked
    /\ Len(observations[1].label_candidates) > TopCands
    /\ Len(reply[1].text_candidates) = TopCands
    /\ similarity(reply[1].text_candidates[1]) > similarity(reply[1].text_candidates[TopCands])

\* C5: an inference call changes neither the cache nor the model parameters, and
\* an inference call that follows an inference call on the same batch returns
\* the same reply.
C5_InferenceIdempotent ==
    [][(op' = "batch_act" /\ ys'.none) =>
          /\ ys_cache' = ys_cache
          /\ theta' = theta
          /\ (Inference /\ observations' = observations) => reply' = reply]_vars

\* a ranking made after training calls filled the cache
C5_Witness ==
    /\ Ranked
    /\ reply[1].kind = "text"
    /\ Len(ys_cache) = ys_cache_sz

\* the reply to one observation of an inference batch, taken on its own
reply_to(o) ==
    IF valid(o) /\ o.label_candidates # <<>>
    THEN rank(theta, sort_ties, <<o.text2vec>>, parsed_cands(o), o.label_candidates)
    ELSE EmptyReply

\* C8 as stated: batch_act's reply at index i is the reply to observation i, for
\* a batch of any size.
C8_RepliesMatchObservations ==
    (op = "batch_act" /\ raised = "none") =>
        /\ Len(reply) = Len(observations)
        /\ ys.none => \A i \in 1..Len(observations) : reply[i] = reply_to(observations[i])

(***************************************************************************)
(* The claim about the length cap of labels, checked under SpecVec.        *)
(***************************************************************************)
\* the last n tokens of a row, and its first n tokens
trailing(row, n) == IF Len(row) > n THEN SubSeq(row, Len(row) - n + 1, Len(row)) ELSE row

leading(row, n) == IF Len(row) > n THEN SubSeq(row, 1, n) ELSE row

\* the last call vectorized a label under a length cap
Capped == op = "batch_act" /\ ~ys.none /\ truncate > 0

\* C7 as stated: under a length cap m the target row is the trailing m tokens of
\* the selected label.
C7_KeepsTrailing ==
    Capped =>
        \E n \in 1..Len(observations[1].labels) :
            ys.t[1] = trailing(parse(observations[1].labels[n]), truncate)

\* C7 amended: under a length cap m the target row is the leading m tokens of
\* the selected label, in order: tokens are dropped from the right.
C7_KeepsLeading ==
    Capped =>
        \E n \in 1..Len(observations[1].labels) :
            ys.t[1] = leading(parse(observations[1].labels[n]), truncate)

\* a label longer than the cap was cut to a row that is not its trailing tokens
C7_Witness ==
    /\ Capped
    /\ Len(observations[1].labels) = 1
    /\ Len(parse(observations[1].labels[1])) > truncate
    /\ ys.t[1] = leading(parse(observations[1].labels[1]), truncate)
    /\ ys.t[1] # trailing(parse(observations[1].labels[1]), truncate)

(***************************************************************************)
(* The claim about load_cands, checked under SpecCands.                    *)
(***************************************************************************)
\* a line without its index prefix: a run of digits and the space after it
RECURSIVE unnumbered(_)
unnumbered(line) ==
    IF line # <<>> /\ \E d \in 1..Len(Digits) : Head(line) = Digits[d]
    THEN IF Len(line) >= 2 /\ line[2] = SPACE
         THEN SubSeq(line, 3, Len(line))
         ELSE unnumbered(Tail(line))
    ELSE line

\* the reply of a line: its second tab-separated field, once the line is
\* stripped, unescaped and rid of its index prefix
reply_field(raw) ==
    LET line == unescape(strip(raw))
        sp == split(IF line = unnumbered(line) THEN line ELSE unnumbered(line), TAB)
    IN  IF Len(sp) > 1 THEN sp[2] ELSE <<>>

\* the non-empty replies of the lines of a file, in file order
RECURSIVE replies_of(_)
replies_of(lines) ==
    IF lines = <<>> THEN <<>>
    ELSE (IF reply_field(Head(lines)) # <<>> THEN <<reply_field(Head(lines))>> ELSE <<>>)
         \o replies_of(Tail(lines))

\* some line of the file holds a tab once it is stripped
ReplyForm(lines) == \E i \in 1..Len(lines) : find(strip(lines[i]), TAB) # -1

\* C6 as stated: of a file in which some line contains a tab, numbered or not,
\* load_cands returns the non-empty second tab-separated fields of its lines, in
\* file order, and nothing else.
C6_RepliesOnly ==
    (op = "load_cands" /\ ReplyForm(cand_file)) => loaded = replies_of(cand_file)

====
